---- MODULE Spec2Model ----
(***************************************************************************)
(* Model of the speech-recognition session controller of src/App.js        *)
(* (the hook useWebSpeechRecognition and the recognition handlers it       *)
(* installs), together with the browser's SpeechRecognition object that    *)
(* drives the handlers.                                                    *)
(*                                                                         *)
(* The controller's React state (isListening, transcript,                  *)
(* interimTranscript, error, isSupported) and the ref recognitionRef are   *)
(* the model's state.  The handlers run one at a time on the event loop,   *)
(* so every handler is one atomic action.  Text is modelled by TLA+        *)
(* strings, '' by "".                                                      *)
(*                                                                         *)
(* The recognizer is outside the repository.  It is modelled by the        *)
(* variable provider with the life cycle of the Web Speech API:            *)
(*   idle --start()--> starting --onstart--> running                       *)
(*   running --stop()--> stopping   (results captured so far still flush)  *)
(*   starting --stop()--> ending                                           *)
(*   starting/running/stopping --onerror--> ending                         *)
(*   running/stopping/ending --onend--> idle                               *)
(* start() on a recognizer that is not idle throws InvalidStateError.      *)
(***************************************************************************)
EXTENDS Integers, Sequences, FiniteSets, TLC

(* ----------------------------- bounds ---------------------------------- *)
\* longest results list of one result event
MaxSegments == 2
\* most final segments the model lets the provider deliver between two start() calls
MaxTranscript == 2

\* texts of recognized segments
Texts == {"a", "b"}
\* provider error codes: the four the switch names and two it does not
ErrorCodes == {"not-allowed", "no-speech", "audio-capture", "network",
               "aborted", "bad-grammar"}

(* --------------------------- message texts ----------------------------- *)
MsgNotAllowed == "Microphone access denied. Please allow microphone permissions."
MsgNoSpeech == "No speech detected. Please try again."
MsgAudioCapture == "No microphone found. Please check your microphone."
MsgNetwork == "Network error. Please check your connection."
MsgOtherPrefix == "Speech recognition error: "
MsgNoApi == "Web Speech API not supported in this browser. Please use Chrome or Edge."
MsgNoWindow == "Please open this app in a web browser for speech recognition."
MsgStartFailed == "Failed to start speech recognition. Please try again."
AlertNotSupported == "Please open this app in Chrome or Edge browser for speech recognition."

VARIABLES
  isListening,        \* useState(false): Session State, TRUE = Listening
  transcript,         \* useState(''): Committed transcript
  interimTranscript,  \* useState(''): Pending fragment
  error,              \* useState(''): Error Record message
  isSupported,        \* useState(false), set once by the mount effect
  recognitionRef,     \* useRef(null): TRUE when it holds the recognizer
  provider,           \* life-cycle state of the SpeechRecognition object
  mounted,            \* FALSE once the effect's cleanup has run
  alert,              \* text of the Alert.alert raised by the last operation
  lastOp,             \* the operation or event processed last
  lastCalls,          \* recognizer methods the last operation called
  lastResult,         \* the result event processed last (when lastOp = "onresult")
  lastCode,           \* the error code processed last (when lastOp = "onerror")
  finalsSinceStart,   \* texts of the final segments delivered since the last start()
  clearedSinceStart,  \* a clear() was called since the last start()
  stopMark,           \* the last stop() made while Listening, until the caller acts again
  startFound          \* the parts the last operation, if a start(), found non-empty

vars == <<isListening, transcript, interimTranscript, error, isSupported,
          recognitionRef, provider, mounted, alert, lastOp, lastCalls,
          lastResult, lastCode, finalsSinceStart, clearedSinceStart, stopMark,
          startFound>>

ctl == <<isListening, transcript, interimTranscript, error>>
env == <<isSupported, recognitionRef, mounted>>

(* ----------------------------- result events --------------------------- *)
Segment == [transcript : Texts, isFinal : BOOLEAN]

ResultLists == UNION {[1..n -> Segment] : n \in 1..MaxSegments}

\* event.results and event.resultIndex (0-based, as in the source)
ResultEvents ==
  {[results |-> rs, resultIndex |-> i] : rs \in ResultLists, i \in 0..(MaxSegments - 1)}

NoResult == [results |-> <<>>, resultIndex |-> 0]

\* the for loop of onresult: i runs from event.resultIndex to results.length - 1
LoopStart(event) == event.resultIndex

RECURSIVE ResultLoop(_, _, _, _)
ResultLoop(event, i, finalTranscript, interim) ==
  IF i < Len(event.results)
  THEN LET r == event.results[i + 1]
       IN  IF r.isFinal
           THEN ResultLoop(event, i + 1, finalTranscript \o r.transcript, interim)
           ELSE ResultLoop(event, i + 1, finalTranscript, interim \o r.transcript)
  ELSE [finalTranscript |-> finalTranscript, interimTranscript |-> interim]

\* if (finalTranscript) setTranscript(prev => prev + finalTranscript)
AppendFinal_Replace(prev, finalTranscript) ==
  IF finalTranscript # "" THEN finalTranscript ELSE prev

AppendFinal(prev, finalTranscript) ==
  IF finalTranscript # "" THEN prev \o finalTranscript ELSE prev

\* setInterimTranscript(interimTranscript)
SetInterim_Accumulate(prev, interim) == prev \o interim

SetInterim(prev, interim) == interim

(* ----------------------------- error mapping --------------------------- *)
ErrorMessage_Swapped(code) ==
  CASE code = "not-allowed" -> MsgNotAllowed
    [] code = "no-speech" -> MsgAudioCapture
    [] code = "audio-capture" -> MsgNoSpeech
    [] code = "network" -> MsgNetwork
    [] OTHER -> MsgOtherPrefix \o code

\* the switch of onerror
ErrorMessage(code) ==
  CASE code = "not-allowed" -> MsgNotAllowed
    [] code = "no-speech" -> MsgNoSpeech
    [] code = "audio-capture" -> MsgAudioCapture
    [] code = "network" -> MsgNetwork
    [] OTHER -> MsgOtherPrefix \o code

(* ------------------------------- Init ---------------------------------- *)
\* no stop() is being followed: committed is the Committed transcript when
\* stop() was called, finals the final segments delivered since
NoStop == [active |-> FALSE, committed |-> "", finals |-> <<>>]

\* the state after the mount effect has run and the component re-rendered
Init ==
  /\ isListening = FALSE
  /\ transcript = ""
  /\ interimTranscript = ""
  /\ \/ isSupported = TRUE /\ recognitionRef = TRUE /\ error = ""
     \/ isSupported = FALSE /\ recognitionRef = FALSE /\ error = MsgNoApi
     \/ isSupported = FALSE /\ recognitionRef = FALSE /\ error = MsgNoWindow
  /\ provider = "idle"
  /\ mounted = TRUE
  /\ alert = ""
  /\ lastOp = "init"
  /\ lastCalls = {}
  /\ lastResult = NoResult
  /\ lastCode = ""
  /\ finalsSinceStart = <<>>
  /\ clearedSinceStart = FALSE
  /\ stopMark = NoStop
  /\ startFound = {}

\* ghost bookkeeping shared by the operations that are not result or error events
Note(op, calls) ==
  /\ lastOp' = op
  /\ lastCalls' = calls
  /\ lastResult' = NoResult
  /\ lastCode' = ""
  /\ startFound' = IF op = "start"
                   THEN {part \in {"error", "transcript", "interimTranscript"} :
                           \/ part = "error" /\ error # ""
                           \/ part = "transcript" /\ transcript # ""
                           \/ part = "interimTranscript" /\ interimTranscript # ""}
                   ELSE {}

(* --------------------------- caller operations ------------------------- *)
\* recognitionRef.current?.start(): accepted by an idle recognizer, throws otherwise
StartAccepted == recognitionRef /\ provider = "idle"
StartThrows == recognitionRef /\ provider # "idle"

startListening_Optimistic ==
  /\ mounted
  /\ Note("start", IF isSupported /\ recognitionRef THEN {"start"} ELSE {})
  /\ finalsSinceStart' = <<>>
  /\ clearedSinceStart' = FALSE
  /\ stopMark' = NoStop
  /\ IF ~isSupported
     THEN /\ alert' = AlertNotSupported
          /\ UNCHANGED <<ctl, provider>>
     ELSE /\ alert' = ""
          /\ isListening' = TRUE
          /\ transcript' = ""
          /\ interimTranscript' = ""
          /\ error' = IF StartThrows THEN MsgStartFailed ELSE ""
          /\ provider' = IF StartAccepted THEN "starting" ELSE provider
  /\ UNCHANGED env

startListening_ListenFirst ==
  /\ mounted
  /\ Note("start", IF isSupported /\ recognitionRef THEN {"start"} ELSE {})
  /\ finalsSinceStart' = <<>>
  /\ clearedSinceStart' = FALSE
  /\ stopMark' = NoStop
  /\ isListening' = TRUE
  /\ IF ~isSupported
     THEN /\ alert' = AlertNotSupported
          /\ UNCHANGED <<transcript, interimTranscript, error, provider>>
     ELSE /\ alert' = ""
          /\ transcript' = ""
          /\ interimTranscript' = ""
          /\ error' = IF StartThrows THEN MsgStartFailed ELSE ""
          /\ provider' = IF StartAccepted THEN "starting" ELSE provider
  /\ UNCHANGED env

startListening_KeepsError ==
  /\ mounted
  /\ Note("start", IF isSupported /\ recognitionRef THEN {"start"} ELSE {})
  /\ finalsSinceStart' = <<>>
  /\ clearedSinceStart' = FALSE
  /\ stopMark' = NoStop
  /\ IF ~isSupported
     THEN /\ alert' = AlertNotSupported
          /\ UNCHANGED <<ctl, provider>>
     ELSE /\ alert' = ""
          /\ transcript' = ""
          /\ interimTranscript' = ""
          /\ error' = IF StartThrows THEN MsgStartFailed ELSE error
          /\ provider' = IF StartAccepted THEN "starting" ELSE provider
          /\ UNCHANGED isListening
  /\ UNCHANGED env

startListening ==
  /\ mounted
  /\ Note("start", IF isSupported /\ recognitionRef THEN {"start"} ELSE {})
  /\ finalsSinceStart' = <<>>
  /\ clearedSinceStart' = FALSE
  /\ stopMark' = NoStop
  /\ IF ~isSupported
     THEN /\ alert' = AlertNotSupported
          /\ UNCHANGED <<ctl, provider>>
     ELSE /\ alert' = ""
          /\ transcript' = ""
          /\ interimTranscript' = ""
          /\ error' = IF StartThrows THEN MsgStartFailed ELSE ""
          /\ provider' = IF StartAccepted THEN "starting" ELSE provider
          /\ UNCHANGED isListening
  /\ UNCHANGED env

\* recognitionRef.current?.stop(); stop() of the recognizer does not throw
ProviderAfterStop(p) ==
  CASE p = "starting" -> "ending"
    [] p = "running" -> "stopping"
    [] OTHER -> p

stopListening_ClearsTranscript ==
  /\ mounted
  /\ Note("stop", IF recognitionRef THEN {"stop"} ELSE {})
  /\ stopMark' = IF isListening
                 THEN [active |-> TRUE, committed |-> transcript, finals |-> <<>>]
                 ELSE NoStop
  /\ provider' = IF recognitionRef THEN ProviderAfterStop(provider) ELSE provider
  /\ alert' = ""
  /\ transcript' = ""
  /\ UNCHANGED <<isListening, interimTranscript, error, env, finalsSinceStart,
                 clearedSinceStart>>

stopListening_Guarded ==
  /\ mounted
  /\ Note("stop", IF recognitionRef /\ isListening THEN {"stop"} ELSE {})
  /\ stopMark' = IF isListening
                 THEN [active |-> TRUE, committed |-> transcript, finals |-> <<>>]
                 ELSE NoStop
  /\ provider' = IF recognitionRef /\ isListening
                 THEN ProviderAfterStop(provider) ELSE provider
  /\ alert' = ""
  /\ UNCHANGED <<ctl, env, finalsSinceStart, clearedSinceStart>>

stopListening ==
  /\ mounted
  /\ Note("stop", IF recognitionRef THEN {"stop"} ELSE {})
  /\ stopMark' = IF isListening
                 THEN [active |-> TRUE, committed |-> transcript, finals |-> <<>>]
                 ELSE NoStop
  /\ provider' = IF recognitionRef THEN ProviderAfterStop(provider) ELSE provider
  /\ alert' = ""
  /\ UNCHANGED <<ctl, env, finalsSinceStart, clearedSinceStart>>

clearTranscript_KeepsError ==
  /\ mounted
  /\ Note("clear", {})
  /\ transcript' = ""
  /\ interimTranscript' = ""
  /\ clearedSinceStart' = TRUE
  /\ stopMark' = NoStop
  /\ alert' = ""
  /\ UNCHANGED <<isListening, error, env, provider, finalsSinceStart>>

clearTranscript_StopsSession ==
  /\ mounted
  /\ Note("clear", IF recognitionRef THEN {"stop"} ELSE {})
  /\ transcript' = ""
  /\ interimTranscript' = ""
  /\ error' = ""
  /\ clearedSinceStart' = TRUE
  /\ stopMark' = NoStop
  /\ alert' = ""
  /\ provider' = IF recognitionRef THEN ProviderAfterStop(provider) ELSE provider
  /\ UNCHANGED <<isListening, env, finalsSinceStart>>

clearTranscript ==
  /\ mounted
  /\ Note("clear", {})
  /\ transcript' = ""
  /\ interimTranscript' = ""
  /\ error' = ""
  /\ clearedSinceStart' = TRUE
  /\ stopMark' = NoStop
  /\ alert' = ""
  /\ UNCHANGED <<isListening, env, provider, finalsSinceStart>>

teardown_OnlyWhenListening ==
  /\ mounted
  /\ mounted' = FALSE
  /\ Note("teardown", IF recognitionRef /\ isListening THEN {"stop"} ELSE {})
  /\ stopMark' = NoStop
  /\ provider' = IF recognitionRef /\ isListening
                 THEN ProviderAfterStop(provider) ELSE provider
  /\ alert' = ""
  /\ UNCHANGED <<ctl, isSupported, recognitionRef, finalsSinceStart, clearedSinceStart>>

\* the cleanup returned by the mount effect
teardown ==
  /\ mounted
  /\ mounted' = FALSE
  /\ Note("teardown", IF recognitionRef THEN {"stop"} ELSE {})
  /\ stopMark' = NoStop
  /\ provider' = IF recognitionRef THEN ProviderAfterStop(provider) ELSE provider
  /\ alert' = ""
  /\ UNCHANGED <<ctl, isSupported, recognitionRef, finalsSinceStart, clearedSinceStart>>

(* ---------------------------- provider events -------------------------- *)
onstart ==
  /\ mounted
  /\ provider = "starting"
  /\ provider' = "running"
  /\ Note("onstart", {})
  /\ stopMark' = NoStop
  /\ isListening' = TRUE
  /\ error' = ""
  /\ alert' = ""
  /\ UNCHANGED <<transcript, interimTranscript, env, finalsSinceStart, clearedSinceStart>>

\* the texts of the final segments the event delivers, in provider order
DeliveredFinals(event) ==
  LET n == Len(event.results)
      delivered == [k \in 1..(n - event.resultIndex) |-> event.results[event.resultIndex + k]]
      finals == SelectSeq(delivered, LAMBDA s : s.isFinal)
  IN  [k \in 1..Len(finals) |-> finals[k].transcript]

onresult ==
  /\ mounted
  /\ provider \in {"running", "stopping"}
  /\ \E event \in ResultEvents :
       /\ event.resultIndex < Len(event.results)
       /\ LET out == ResultLoop(event, LoopStart(event), "", "")
          IN  /\ Len(finalsSinceStart) + Len(DeliveredFinals(event)) <= MaxTranscript
              /\ transcript' = AppendFinal(transcript, out.finalTranscript)
              /\ interimTranscript' = SetInterim(interimTranscript, out.interimTranscript)
       /\ lastResult' = event
       /\ finalsSinceStart' = finalsSinceStart \o DeliveredFinals(event)
       /\ stopMark' = IF stopMark.active
                      THEN [stopMark EXCEPT !.finals = @ \o DeliveredFinals(event)]
                      ELSE stopMark
  /\ lastOp' = "onresult"
  /\ startFound' = {}
  /\ lastCalls' = {}
  /\ lastCode' = ""
  /\ alert' = ""
  /\ UNCHANGED <<isListening, error, env, provider, clearedSinceStart>>

onerror ==
  /\ mounted
  /\ provider \in {"starting", "running", "stopping"}
  /\ provider' = "ending"
  /\ \E code \in ErrorCodes :
       /\ error' = ErrorMessage(code)
       /\ lastCode' = code
  /\ isListening' = FALSE
  /\ lastOp' = "onerror"
  /\ startFound' = {}
  /\ lastCalls' = {}
  /\ lastResult' = NoResult
  /\ alert' = ""
  /\ UNCHANGED <<transcript, interimTranscript, env, finalsSinceStart, clearedSinceStart,
                 stopMark>>

onend_ClearsTranscript ==
  /\ mounted
  /\ provider \in {"running", "stopping", "ending"}
  /\ provider' = "idle"
  /\ Note("onend", {})
  /\ isListening' = FALSE
  /\ interimTranscript' = ""
  /\ transcript' = ""
  /\ alert' = ""
  /\ UNCHANGED <<error, env, finalsSinceStart, clearedSinceStart, stopMark>>

onend_KeepsPending ==
  /\ mounted
  /\ provider \in {"running", "stopping", "ending"}
  /\ provider' = "idle"
  /\ Note("onend", {})
  /\ isListening' = FALSE
  /\ alert' = ""
  /\ UNCHANGED <<transcript, interimTranscript, error, env, finalsSinceStart,
                 clearedSinceStart, stopMark>>

onend_KeepsListening ==
  /\ mounted
  /\ provider \in {"running", "stopping", "ending"}
  /\ provider' = "idle"
  /\ Note("onend", {})
  /\ interimTranscript' = ""
  /\ alert' = ""
  /\ UNCHANGED <<isListening, transcript, error, env, finalsSinceStart,
                 clearedSinceStart, stopMark>>

onend ==
  /\ mounted
  /\ provider \in {"running", "stopping", "ending"}
  /\ provider' = "idle"
  /\ Note("onend", {})
  /\ isListening' = FALSE
  /\ interimTranscript' = ""
  /\ alert' = ""
  /\ UNCHANGED <<transcript, error, env, finalsSinceStart, clearedSinceStart, stopMark>>

\* after unmount the recognizer winds down; state setters of an unmounted
\* component have no effect
ProviderDrain ==
  /\ ~mounted
  /\ provider # "idle"
  /\ provider' = "idle"
  /\ UNCHANGED <<ctl, env, alert, lastOp, lastCalls, lastResult, lastCode,
                 finalsSinceStart, clearedSinceStart, stopMark, startFound>>

Next ==
  \/ clearTranscript
  \/ startListening
  \/ stopListening
  \/ teardown
  \/ onstart
  \/ onresult
  \/ onerror
  \/ onend
  \/ ProviderDrain

Spec == Init /\ [][Next]_vars

\* the recognizer ends a session it was told to stop or that has failed
ProviderEnds == onend /\ provider \in {"stopping", "ending"}

FairSpec == Spec /\ WF_vars(ProviderEnds)

TypeOK ==
  /\ isListening \in BOOLEAN
  /\ isSupported \in BOOLEAN
  /\ recognitionRef = isSupported
  /\ provider \in {"idle", "starting", "running", "stopping", "ending"}
  /\ Len(transcript) <= MaxTranscript
  /\ Len(interimTranscript) <= MaxSegments
(* ------------------------- operators of the claims --------------------- *)
RECURSIVE Concat(_)
Concat(texts) ==
  IF texts = <<>> THEN "" ELSE Head(texts) \o Concat(Tail(texts))

\* the segments an event delivers: those from resultIndex on
Delivered(event) ==
  [k \in 1..(Len(event.results) - event.resultIndex) |-> event.results[event.resultIndex + k]]

InterimTexts(event) ==
  LET interims == SelectSeq(Delivered(event), LAMBDA s : ~s.isFinal)
  IN  [k \in 1..Len(interims) |-> interims[k].transcript]

HasFinal(event) == \E k \in 1..Len(Delivered(event)) : Delivered(event)[k].isFinal
HasInterim(event) == \E k \in 1..Len(Delivered(event)) : ~Delivered(event)[k].isFinal

\* the message table of the error kinds
MessageTable ==
  [c \in ErrorCodes |->
     IF c = "not-allowed" THEN "Microphone access denied. Please allow microphone permissions."
     ELSE IF c = "no-speech" THEN "No speech detected. Please try again."
     ELSE IF c = "audio-capture" THEN "No microphone found. Please check your microphone."
     ELSE IF c = "network" THEN "Network error. Please check your connection."
     ELSE IF c = "aborted" THEN "Speech recognition error: aborted"
     ELSE "Speech recognition error: bad-grammar"]

(* -------------------------------- claims ------------------------------- *)
\* C1: after every result event processed while Listening, with no clear()
\* since the last start(), the Committed transcript is the concatenation, in
\* delivery order, of the final segments of all result events since that start().
C1_CommittedIsFinalsSinceStart ==
  (lastOp = "onresult" /\ isListening /\ ~clearedSinceStart)
    => transcript = Concat(finalsSinceStart)

\* a second or later event has just added a final segment to earlier ones
C1_Witness ==
  /\ lastOp = "onresult" /\ isListening /\ ~clearedSinceStart
  /\ HasFinal(lastResult)
  /\ Len(finalsSinceStart) > Len(DeliveredFinals(lastResult))
  /\ transcript = Concat(finalsSinceStart)

\* C2: after a result event the Pending fragment is exactly the concatenation
\* of that event's interim segments, in provider order (empty when it has none).
C2_PendingIsInterimOfEvent ==
  lastOp = "onresult" => interimTranscript = Concat(InterimTexts(lastResult))

\* an event with a final and an interim segment arrives when text is committed
C2_Witness ==
  /\ lastOp = "onresult"
  /\ HasFinal(lastResult) /\ HasInterim(lastResult)
  /\ Len(transcript) > 1
  /\ interimTranscript = Concat(InterimTexts(lastResult))
  /\ interimTranscript # ""

\* C3: the Pending fragment is empty whenever the Session State is Idle.
C3_PendingEmptyWhenIdle ==
  (mounted /\ ~isListening) => interimTranscript = ""

\* C4: an error event received while Listening leaves the Pending fragment
\* empty and the Session State not Listening.
C4_ErrorClearsPending ==
  [][(isListening /\ lastOp' = "onerror")
       => (interimTranscript' = "" /\ ~isListening')]_vars

\* C5: after an error event the Error Record holds the message the table
\* gives for the event's code, whatever it held before.
C5_ErrorMessageMapping ==
  lastOp = "onerror" => error = MessageTable[lastCode]

\* an error with a code outside the four named ones has been processed
C5_Witness ==
  /\ lastOp = "onerror"
  /\ lastCode = "aborted"
  /\ error = "Speech recognition error: aborted"

C7_StartWhileListeningIsNoOp ==
  [][(isListening /\ lastOp' = "start")
       => UNCHANGED <<isListening, transcript, interimTranscript>>]_vars

C9_StartUnavailableChangesNothing ==
  [][~isSupported
       => /\ lastCalls' = {}
          /\ provider' = "idle"
          /\ lastOp' = "start"
               => /\ ~isListening'
                  /\ isListening' = isListening
                  /\ transcript' = transcript
                  /\ interimTranscript' = interimTranscript]_vars

\* start() was called with the provider unavailable, after a clear()
C9_Witness ==
  /\ ~isSupported
  /\ lastOp = "start"
  /\ clearedSinceStart = FALSE
  /\ error = ""
  /\ alert = AlertNotSupported

\* C10: with the provider unavailable every start() ends with the Error
\* Record holding the Unsupported message.
C10_StartUnavailableSetsError ==
  (~isSupported /\ lastOp = "start") => error \in {MsgNoApi, MsgNoWindow}
\* C11: when the recognizer rejects the start request, start() leaves the
\* controller Idle, or leaves the Session State, both transcript parts and the
\* Error Record as they were before the call.
C11_FailedStartRecoversOrUnchanged ==
  [][(isSupported /\ StartThrows /\ lastOp' = "start")
       => \/ ~isListening'
          \/ UNCHANGED <<isListening, transcript, interimTranscript, error>>]_vars

\* C12: a start() the recognizer accepts leaves the Error Record, the
\* Committed transcript and the Pending fragment empty.
C12_AcceptedStartClearsAll ==
  [][(isSupported /\ StartAccepted /\ lastOp' = "start")
       => (error' = "" /\ transcript' = "" /\ interimTranscript' = "")]_vars

\* a start() that found an error and a transcript of an earlier session has
\* just been accepted by the recognizer
C12_Witness ==
  /\ isSupported
  /\ lastOp = "start"
  /\ lastCalls = {"start"}
  /\ provider = "starting"
  /\ startFound = {"error", "transcript"}
  /\ error = "" /\ transcript = "" /\ interimTranscript = ""
\* C13 as stated: after stop() called while Listening and the provider's end
\* event, with only provider events in between, the state is Idle and the
\* Committed transcript is what it was immediately before stop().
C13_Original ==
  (lastOp = "onend" /\ stopMark.active)
    => (~isListening /\ transcript = stopMark.committed)

\* C13 amended: stop() itself leaves the Committed transcript as it was, and
\* after the provider's end event the state is Idle and the Committed
\* transcript is its value immediately before stop() followed by the final
\* segments the provider delivered between the stop request and the end event.
C13_StopThenEndKeepsCommitted ==
  /\ (lastOp = "stop" /\ stopMark.active) => transcript = stopMark.committed
  /\ (lastOp = "onend" /\ stopMark.active)
       => /\ ~isListening
          /\ transcript = stopMark.committed \o Concat(stopMark.finals)

\* the end event has followed a stop() after which the provider flushed a final
\* segment onto a non-empty transcript
C13_Witness ==
  /\ lastOp = "onend"
  /\ stopMark.active
  /\ stopMark.committed # ""
  /\ stopMark.finals # <<>>
  /\ ~isListening

\* C14: an end event leaves the state Idle and the Pending fragment empty,
\* leaves the Committed transcript and the Error Record as they were, and
\* changes no controller state when the state was already Idle.
C14_EndIdempotent ==
  [][lastOp' = "onend"
       => /\ ~isListening'
          /\ interimTranscript' = ""
          /\ transcript' = transcript
          /\ error' = error
          /\ ~isListening => UNCHANGED <<isListening, transcript, interimTranscript, error>>]_vars
\* C15 as stated: stop() called when the state is not Listening issues no
\* request to the provider and changes no controller state; a stop request
\* reaches the provider only when the state is Listening.
C15_Original ==
  [][(~isListening /\ lastOp' = "stop")
       => /\ lastCalls' = {}
          /\ provider' = provider
          /\ UNCHANGED <<isListening, transcript, interimTranscript, error>>]_vars

\* C15 amended: stop() called when the state is not Listening changes no
\* controller state, but it still sends a stop request to the provider
\* whenever the controller holds a recognizer.
C15_StopWhenIdleKeepsState ==
  [][(~isListening /\ lastOp' = "stop")
       => /\ UNCHANGED <<isListening, transcript, interimTranscript, error>>
          /\ lastCalls' = IF recognitionRef THEN {"stop"} ELSE {}]_vars

\* stop() was called between start() and onstart: the state was Idle and the
\* request reached the recognizer, which gave up the session it was starting
C15_Witness ==
  /\ lastOp = "stop"
  /\ ~isListening
  /\ lastCalls = {"stop"}
  /\ provider = "ending"
  /\ error = ""
  /\ ~clearedSinceStart

\* C16: clear() leaves the Committed transcript, the Pending fragment and the
\* Error Record empty in every Session State, and a clear() that directly
\* follows a clear() changes nothing.
C16_ClearResetsAndIsIdempotent ==
  [][lastOp' = "clear"
       => /\ transcript' = "" /\ interimTranscript' = "" /\ error' = ""
          /\ lastOp = "clear"
               => UNCHANGED <<isListening, transcript, interimTranscript, error,
                              provider>>]_vars

\* clear() was called between an error event and the end event, when the
\* Error Record and the Committed transcript were not empty
C16_Witness ==
  /\ lastOp = "clear"
  /\ provider = "ending"
  /\ ~isListening
  /\ finalsSinceStart # <<>>
  /\ transcript = "" /\ interimTranscript = "" /\ error = ""

\* C17: clear() leaves the Session State as it was and sends nothing to the
\* provider, whose session goes on; a result event with a final segment that
\* directly follows a clear() made while Listening leaves the Committed
\* transcript equal to that event's final text alone.
C17_ClearKeepsSessionRunning ==
  [][/\ lastOp' = "clear"
          => (isListening' = isListening /\ lastCalls' = {} /\ provider' = provider)
     /\ (lastOp = "clear" /\ isListening /\ lastOp' = "onresult" /\ HasFinal(lastResult'))
          => transcript' = Concat(DeliveredFinals(lastResult'))]_vars

\* text committed before a clear() is gone and the text of a later event's
\* final segment is all the Committed transcript holds
C17_Witness ==
  /\ isListening
  /\ clearedSinceStart
  /\ lastOp = "onresult"
  /\ HasFinal(lastResult)
  /\ Len(finalsSinceStart) > Len(DeliveredFinals(lastResult))
  /\ transcript = Concat(DeliveredFinals(lastResult))

\* C18: with the provider available, teardown sends a stop request in every
\* Session State, so no recognizer session is left starting or capturing.
C18_TeardownStopsProvider ==
  (lastOp = "teardown" /\ isSupported)
    => (lastCalls = {"stop"} /\ provider \notin {"starting", "running"})

\* teardown has stopped the recognizer of a session that was Listening
C18_Witness ==
  /\ lastOp = "teardown"
  /\ isSupported
  /\ isListening
  /\ lastCalls = {"stop"}
  /\ provider = "stopping"
\* C19: when the provider does emit the end event of a session it was told to
\* stop, a stop() called while Listening is followed, unless the controller is
\* torn down first, by a state that is Idle with an empty Pending fragment; and
\* an Idle controller becomes Listening only by the provider's onstart.
C19_StopLeadsToIdle ==
  /\ [](  (mounted /\ lastOp = "stop" /\ stopMark.active)
       => <>(~mounted \/ (~isListening /\ interimTranscript = "")))
  /\ [][(~isListening /\ isListening') => lastOp' = "onstart"]_vars

\* the end event of a session stopped while Listening has left the controller
\* Idle with nothing pending
C19_Witness ==
  /\ mounted
  /\ lastOp = "onend"
  /\ stopMark.active
  /\ stopMark.finals = <<>>
  /\ ~isListening
  /\ interimTranscript = ""

\* the provider states in which a session has been started and has not ended
ActiveSession == {"running", "stopping", "ending"}

\* C20: while the controller lives, if it reports Listening the provider has
\* a session that was started and has not ended.
C20_ListeningImpliesActiveSession ==
  (mounted /\ isListening) => provider \in ActiveSession

\* the controller is Listening to a session the recognizer was told to stop
C20_Witness ==
  /\ mounted
  /\ isListening
  /\ provider = "stopping"
  /\ lastOp = "onresult"
====
